---- MODULE Spec2Model ----
(***************************************************************************)
(* Model of the media-monitoring engine of EscuchaDeMedios:                *)
(*   - osint-crawler-sentiment.py: MediaCrawlerAndSentimentAnalyzer        *)
(*     (sentiment analysis, hashtag/trend detection over a Redis counter   *)
(*     store, collective sentiment and social tension);                    *)
(*   - osint-asr-pipeline.py: MediaMonitoringASRPipeline                   *)
(*     (vector storage and semantic search over Pinecone or pgvector).     *)
(*                                                                         *)
(* Python floats are modelled as exact rationals [n, d] in lowest terms;   *)
(* Python strings as tuples of one-character strings.                      *)
(***************************************************************************)
EXTENDS Integers, Sequences, FiniteSets, TLC

VARIABLES
    pc,               \* position of run_full_analysis
    runs,             \* analysis runs still to start
    now,              \* wall clock, in seconds
    redis,            \* Redis content: key -> [val, exp]
    articulos,        \* all_articulos of the current run
    idx,              \* loop index of step 2 of run_full_analysis
    trending_topics,  \* result of extract_hashtags_and_trends
    candidatos,       \* history: every _analyze_trend call of the last run
    analisis,         \* result of analyze_collective_sentiment
    vector_index,     \* Pinecone index: id -> [values, metadata]
    audio_transcriptions, \* pgvector table: sequence of rows
    almacenados,      \* history: the ProcessedAudio stored so far, in order
    resultados,       \* result of the last semantic_search, per backend
    llamada,          \* arguments and result of a direct scoring call
    redis_up,         \* whether the Redis server answers
    excepcion         \* the exception the last operation raised, if any

vars == << pc, runs, now, redis, articulos, idx, trending_topics, candidatos,
           analisis, vector_index, audio_transcriptions, almacenados,
           resultados, llamada, redis_up, excepcion >>

Nil == "nil"

-----------------------------------------------------------------------------
(* Bounds of the model *)

MaxDocs == 2        \* articles per batch
MaxRuns == 2        \* analysis runs per behaviour
MaxPrior == 2       \* largest count found in Redis at start-up
MaxTicks == 1       \* clock advances per behaviour
MaxOrdenes == 4     \* largest tag set of which every listing is explored

-----------------------------------------------------------------------------
(* Exact rational arithmetic standing for Python float arithmetic *)

RECURSIVE GCD(_, _)
GCD(a, b) == IF b = 0 THEN a ELSE GCD(b, a % b)

Abs(x) == IF x < 0 THEN -x ELSE x

Rat(n, d) ==
    LET s == IF d < 0 THEN -1 ELSE 1
        g == GCD(Abs(n), Abs(d))
    IN  [n |-> (s * n) \div g, d |-> (s * d) \div g]

RInt(i) == [n |-> i, d |-> 1]
RAdd(x, y) ==
    LET l == (x.d \div GCD(x.d, y.d)) * y.d
    IN  Rat(x.n * (l \div x.d) + y.n * (l \div y.d), l)
RMul(x, y) ==
    LET g1 == GCD(Abs(x.n), y.d)
        g2 == GCD(Abs(y.n), x.d)
    IN  Rat((x.n \div g1) * (y.n \div g2), (x.d \div g2) * (y.d \div g1))
RDivInt(x, k) == RMul(x, [n |-> 1, d |-> k])
RLess(x, y) == x.n * y.d < y.n * x.d
RLeq(x, y) == x.n * y.d <= y.n * x.d
RMin(x, y) == IF RLess(y, x) THEN y ELSE x
RAbs(x) == [n |-> Abs(x.n), d |-> x.d]

RECURSIVE RSum(_)
RSum(s) == IF s = << >> THEN RInt(0) ELSE RAdd(Head(s), RSum(Tail(s)))

\* np.mean of a non-empty list
RMean(s) == RDivInt(RSum(s), Len(s))

-----------------------------------------------------------------------------
(* Text *)

LowerChar(c) ==
    CASE c = "P" -> "p" [] c = "A" -> "a" [] c = "R" -> "r" [] c = "O" -> "o"
      [] c = "S" -> "s" [] c = "N" -> "n" [] c = "E" -> "e" [] c = "G" -> "g"
      [] c = "U" -> "u" [] OTHER -> c

\* str.lower()
Lower(s) == [i \in 1..Len(s) |-> LowerChar(s[i])]

\* the characters matched by \w among those the model uses
WordChars == {"p", "a", "r", "o", "s", "d", "l", "n", "e", "g", "u", "_",
              "P", "A", "R", "O", "S", "N", "E", "G", "U"}

\* Python's `h in t` for strings
IsSubstring(h, t) ==
    \E i \in 1..(Len(t) - Len(h) + 1) : SubSeq(t, i, i + Len(h) - 1) = h

\* last index of the run of \w characters that starts at i (i-1 if none)
RECURSIVE WordEnd(_, _)
WordEnd(s, i) ==
    IF i <= Len(s) /\ s[i] \in WordChars THEN WordEnd(s, i + 1) ELSE i - 1

\* re.findall(r'#\w+', s), scanning from position i
RECURSIVE FindHashtags(_, _)
FindHashtags(s, i) ==
    IF i > Len(s) THEN << >>
    ELSE IF s[i] = "#" /\ WordEnd(s, i + 1) > i
         THEN << SubSeq(s, i, WordEnd(s, i + 1)) >>
                  \o FindHashtags(s, WordEnd(s, i + 1) + 1)
         ELSE FindHashtags(s, i + 1)

Range(s) == {s[i] : i \in 1..Len(s)}

\* every listing of a set without repetition: the orders list(set(..)) can give
RECURSIVE Orderings(_)
Orderings(S) ==
    IF S = {} THEN {<< >>}
    ELSE UNION { {<< x >> \o l : l \in Orderings(S \ {x})} : x \in S }

-----------------------------------------------------------------------------
(* Types of osint-crawler-sentiment.py *)

POSITIVO == "positivo"
NEGATIVO == "negativo"
NEUTRAL == "neutral"
Polaridad == {POSITIVO, NEGATIVO, NEUTRAL}

Emocion == {"enojo", "miedo", "alegria", "tristeza", "sorpresa", "disgusto"}

\* Articulo as _scrape_article builds it: no analysis yet
Articulo(id, titulo, contenido) ==
    [id |-> id, titulo |-> titulo, contenido |-> contenido, tags |-> << >>,
     sentimiento |-> Nil, emociones |-> << >>, score_sentimiento |-> RInt(0)]

\* titles and bodies the scraper may return.  _clean_text removes '#' from
\* the body, so explicit hashtags of a scraped article are in its title.
Portada ==
    { [titulo |-> <<"#", "p", "a", "r", "o", " ", "#", "d", "o", "l", "a", "r">>,
       contenido |-> << >>],
      [titulo |-> <<"#", "P", "A", "R", "O", "S">>,
       contenido |-> <<"d", "o", "l", "a", "r">>] }

\* titulo + " " + contenido
Texto(a) == a.titulo \o <<" ">> \o a.contenido

\* six articles on one story: a token with more than 5 mentions
LoteRepetido ==
    [i \in 1..6 |->
        Articulo(i, <<"#", "p", "a", "r", "o", " ", "#", "d", "o", "l", "a", "r">>,
                 << >>)]

\* the batches run_full_analysis can collect: ids are distinct (one per URL)
Lotes ==
    UNION { { [i \in 1..n |-> Articulo(i, f[i].titulo, f[i].contenido)] :
                f \in [1..n -> Portada] } : n \in 0..MaxDocs }
    \cup {LoteRepetido}

\* results of the two classifiers for one article:
\* sentiment_analyzer(..)[0] and emotion_analyzer(..)[0]
Clasificaciones ==
    { [label |-> <<"P", "O", "S">>, score |-> Rat(1, 1),
       emotions |-> << [label |-> "joy", score |-> Rat(1, 2)],
                       [label |-> "admiration", score |-> Rat(1, 2)] >>],
      [label |-> <<"N", "E", "G">>, score |-> Rat(1, 2),
       emotions |-> << [label |-> "anger", score |-> Rat(1, 1)],
                       [label |-> "fear", score |-> Rat(1, 2)] >>],
      [label |-> <<"N", "E", "U">>, score |-> Rat(9, 10),
       emotions |-> << >>] }

-----------------------------------------------------------------------------
(* analyze_sentiment and _analyze_emotions *)

emotion_map ==
    [l \in {"anger", "fear", "joy", "sadness", "surprise", "disgust"} |->
        CASE l = "anger" -> "enojo" [] l = "fear" -> "miedo"
          [] l = "joy" -> "alegria" [] l = "sadness" -> "tristeza"
          [] l = "surprise" -> "sorpresa" [] l = "disgust" -> "disgusto"]

\* the dict built by _analyze_emotions, as the sequence of its items in
\* insertion order (each mapped label once, holding its last score)
RECURSIVE AnalyzeEmotions(_)
AnalyzeEmotions(results) ==
    IF results = << >> THEN << >>
    ELSE LET r == results[Len(results)]
             antes == AnalyzeEmotions(SubSeq(results, 1, Len(results) - 1))
         IN  IF r.label \notin DOMAIN emotion_map THEN antes
             ELSE IF \E i \in 1..Len(antes) : antes[i].emocion = emotion_map[r.label]
                  THEN [i \in 1..Len(antes) |->
                          IF antes[i].emocion = emotion_map[r.label]
                          THEN [emocion |-> antes[i].emocion, score |-> r.score]
                          ELSE antes[i]]
                  ELSE Append(antes, [emocion |-> emotion_map[r.label],
                                      score |-> r.score])

\* analyze_sentiment keeping the classifier's score as it is for every label
AnalyzeSentimentOfSinSigno(a, c) ==
    LET label == Lower(c.label)
        base == [a EXCEPT !.emociones = AnalyzeEmotions(c.emotions)]
    IN  IF IsSubstring(<<"p", "o", "s">>, label)
        THEN [base EXCEPT !.sentimiento = POSITIVO, !.score_sentimiento = c.score]
        ELSE IF IsSubstring(<<"n", "e", "g">>, label)
        THEN [base EXCEPT !.sentimiento = NEGATIVO, !.score_sentimiento = c.score]
        ELSE [base EXCEPT !.sentimiento = NEUTRAL, !.score_sentimiento = c.score]

AnalyzeSentimentOf(a, c) ==
    LET label == Lower(c.label)
        base == [a EXCEPT !.emociones = AnalyzeEmotions(c.emotions)]
    IN  IF IsSubstring(<<"p", "o", "s">>, label)
        THEN [base EXCEPT !.sentimiento = POSITIVO, !.score_sentimiento = c.score]
        ELSE IF IsSubstring(<<"n", "e", "g">>, label)
        THEN [base EXCEPT !.sentimiento = NEGATIVO,
                          !.score_sentimiento = RMul(RInt(-1), c.score)]
        ELSE [base EXCEPT !.sentimiento = NEUTRAL, !.score_sentimiento = RInt(0)]

\* the pipelines are deterministic: one text, one classification
MismaClasificacion(a, b) ==
    /\ a.sentimiento = b.sentimiento
    /\ a.score_sentimiento = b.score_sentimiento
    /\ a.emociones = b.emociones

-----------------------------------------------------------------------------
(* Redis *)

Tokens ==
    { <<"#", "p", "a", "r", "o">>, <<"#", "d", "o", "l", "a", "r">>,
      <<"#", "p", "a", "r", "o", "s">> }

\* f"hashtag:{hashtag}" and f"hashtag:{hashtag}:24h"
RedisKey(hashtag) == [prefix |-> "hashtag", hashtag |-> hashtag, suffix |-> ""]
RedisKey24h(hashtag) == [prefix |-> "hashtag", hashtag |-> hashtag, suffix |-> ":24h"]
RedisKeys == {RedisKey(h) : h \in Tokens} \cup {RedisKey24h(h) : h \in Tokens}

NoExpiry == -1

\* the TTL _analyze_trend gives its counters, in seconds
WindowTTL == 86400

\* Python's None and a present value
None == << >>
Some(v) == << v >>

\* redis_client.get(key): None for a missing or expired key
RedisGet(store, key, t) ==
    IF key \notin DOMAIN store THEN None
    ELSE IF store[key].exp # NoExpiry /\ store[key].exp <= t THEN None
    ELSE Some(store[key].val)

\* redis_client.setex(key, ttl, value)
RedisSetex(store, key, ttl, value, t) ==
    [k \in DOMAIN store \cup {key} |->
        IF k = key THEN [val |-> value, exp |-> t + ttl] ELSE store[k]]

RedisVacio == [k \in {} |-> 0]

-----------------------------------------------------------------------------
(* Trend detection: _extract_hashtags, _analyze_trend,                     *)
(* _calculate_viral_probability, extract_hashtags_and_trends               *)

\* maximal runs of \w characters of s from position i on, as [ini, fin]
RECURSIVE WordRuns(_, _)
WordRuns(s, i) ==
    IF i > Len(s) THEN {}
    ELSE IF s[i] \in WordChars
         THEN {[ini |-> i, fin |-> WordEnd(s, i)]} \cup WordRuns(s, WordEnd(s, i) + 1)
         ELSE WordRuns(s, i + 1)

\* the tags spaCy can add for a text: '#' + token for tokens it tags PROPN
\* with len > 3, and '#' + entity text for entities.  What spaCy recognises
\* is its own choice: any subset of the words of the text, none when
\* self.nlp is None.
NlpTagSets(text) ==
    SUBSET { <<"#">> \o SubSeq(text, r.ini, r.fin) :
               r \in {w \in WordRuns(text, 1) : w.fin - w.ini + 1 > 3} }

\* set(hashtags) of _extract_hashtags for one choice of spaCy's output
ExtractHashtags(text, nlpTags) ==
    Range(FindHashtags(Lower(text), 1)) \cup nlpTags

Reverse(s) == [i \in 1..Len(s) |-> s[Len(s) + 1 - i]]

\* keys of Counter(s) in insertion order: first occurrences
RECURSIVE Distinct(_)
Distinct(s) ==
    IF s = << >> THEN << >>
    ELSE LET antes == Distinct(SubSeq(s, 1, Len(s) - 1))
         IN  IF s[Len(s)] \in Range(antes) THEN antes ELSE Append(antes, s[Len(s)])

\* the orders list(set(..)) can give to the set S of the matches found:
\* every order for a set of up to MaxOrdenes tags, and for a larger set of
\* explicit hashtags the order of the text and its reverse
ListingsOf(S, found) ==
    IF Cardinality(S) > MaxOrdenes /\ S = Range(found)
    THEN {Distinct(found), Reverse(Distinct(found))}
    ELSE Orderings(S)

\* the lists _extract_hashtags can return for a text
HashtagLists(text) ==
    UNION { ListingsOf(ExtractHashtags(text, nt), FindHashtags(Lower(text), 1)) :
              nt \in NlpTagSets(Lower(text)) }

\* norm_* and the weighting of _calculate_viral_probability
CalculateViralProbability(menciones, crecimiento, velocidad, intensidad_sentimiento) ==
    LET norm_menciones == RMin(RDivInt(RInt(menciones), 100), RInt(1))
        norm_crecimiento == RMin(RDivInt(crecimiento, 200), RInt(1))
        norm_velocidad == RMin(RDivInt(velocidad, 10), RInt(1))
        norm_sentimiento == intensidad_sentimiento
        probabilidad ==
            RAdd(RAdd(RMul(norm_menciones, Rat(3, 10)),
                      RMul(norm_crecimiento, Rat(35, 100))),
                 RAdd(RMul(norm_velocidad, Rat(25, 100)),
                      RMul(norm_sentimiento, Rat(10, 100))))
    IN  RMin(probabilidad, RInt(1))

\* the prior count read from the key that setex writes
MencionesPreviasClaveEscrita(store, hashtag, t) ==
    LET previas == RedisGet(store, RedisKey(hashtag), t)
    IN  IF previas = None THEN 0 ELSE previas[1]

\* int(menciones_previas) if menciones_previas else 0
MencionesPrevias(store, hashtag, t) ==
    LET previas == RedisGet(store, RedisKey24h(hashtag), t)
    IN  IF previas = None THEN 0 ELSE previas[1]

\* the growth with the no-baseline threshold taken inclusively
CrecimientoUmbralInclusivo(menciones_actuales, menciones_previas) ==
    IF menciones_previas > 0
    THEN RMul(Rat(menciones_actuales - menciones_previas, menciones_previas), RInt(100))
    ELSE IF menciones_actuales >= 5 THEN RInt(100) ELSE RInt(0)

\* the growth computed by _analyze_trend
Crecimiento(menciones_actuales, menciones_previas) ==
    IF menciones_previas > 0
    THEN RMul(Rat(menciones_actuales - menciones_previas, menciones_previas), RInt(100))
    ELSE IF menciones_actuales > 5 THEN RInt(100) ELSE RInt(0)

\* the admission test with the growth comparison turned around
EsTendenciaCrecimientoInvertido(probabilidad_viral, crecimiento) ==
    RLess(Rat(3, 10), probabilidad_viral) \/ RLess(crecimiento, RInt(50))

\* the admission test requiring both conditions
EsTendenciaConjuncion(probabilidad_viral, crecimiento) ==
    RLess(Rat(3, 10), probabilidad_viral) /\ RLess(RInt(50), crecimiento)

\* the admission test of _analyze_trend
EsTendencia(probabilidad_viral, crecimiento) ==
    RLess(Rat(3, 10), probabilidad_viral) \/ RLess(RInt(50), crecimiento)

\* relating an article by its tag list instead of its text
RelacionadoPorTags(hashtag, a) == hashtag \in Range(a.tags)

\* hashtag in (a.titulo + " " + a.contenido).lower()
Relacionado(hashtag, a) == IsSubstring(hashtag, Lower(Texto(a)))

\* _analyze_trend: the TrendingTopic it builds (emociones_dominantes and
\* timestamp are not represented), whether it returns it, and Redis after
\* its setex
AnalyzeTrend(hashtag, menciones_actuales, arts, store, t) ==
    LET menciones_previas == MencionesPrevias(store, hashtag, t)
        crecimiento == Crecimiento(menciones_actuales, menciones_previas)
        velocidad == Rat(menciones_actuales, 24)
        relacionados == SelectSeq(arts, LAMBDA a : Relacionado(hashtag, a))
        sentimientos == [i \in 1..Len(relacionados) |-> relacionados[i].score_sentimiento]
        sentimiento_promedio ==
            IF sentimientos # << >> THEN RMean(sentimientos) ELSE RInt(0)
        probabilidad_viral ==
            CalculateViralProbability(menciones_actuales, crecimiento, velocidad,
                                      RAbs(sentimiento_promedio))
    IN  [topic |-> [hashtag |-> hashtag,
                    menciones |-> menciones_actuales,
                    crecimiento_24h |-> crecimiento,
                    velocidad |-> velocidad,
                    sentimiento_promedio |-> sentimiento_promedio,
                    articulos_relacionados |->
                        [i \in 1..Len(relacionados) |-> relacionados[i].id],
                    probabilidad_viral |-> probabilidad_viral],
         previas |-> menciones_previas,
         emitido |-> EsTendencia(probabilidad_viral, crecimiento),
         store |-> RedisSetex(store, RedisKey(hashtag), WindowTTL, menciones_actuales, t)]

\* stable sort by key k, largest first: sorted(.., reverse=True) and
\* list.sort(reverse=True) keep equal keys in their original order
RECURSIVE StableSortDesc(_)
StableSortDesc(s) ==
    IF s = << >> THEN << >>
    ELSE LET antes == StableSortDesc(SubSeq(s, 1, Len(s) - 1))
             x == s[Len(s)]
             pos == Cardinality({i \in 1..Len(antes) : RLeq(x.k, antes[i].k)})
         IN  SubSeq(antes, 1, pos) \o << x >> \o SubSeq(antes, pos + 1, Len(antes))

Take(s, n) == SubSeq(s, 1, IF Len(s) < n THEN Len(s) ELSE n)

RECURSIVE Concat(_)
Concat(ss) == IF ss = << >> THEN << >> ELSE Head(ss) \o Concat(Tail(ss))

\* the first n keys of the Counter with their counts, in insertion order
MostCommonSinOrdenar(all_hashtags, n) ==
    LET claves == Take(Distinct(all_hashtags), n)
    IN  [i \in 1..Len(claves) |->
            [hashtag |-> claves[i],
             count |-> Cardinality({j \in 1..Len(all_hashtags) :
                                      all_hashtags[j] = claves[i]})]]

\* Counter(all_hashtags).most_common(n) as a sequence of [hashtag, count]
MostCommon(all_hashtags, n) ==
    LET claves == Distinct(all_hashtags)
        items == [i \in 1..Len(claves) |->
                    [k |-> RInt(Cardinality({j \in 1..Len(all_hashtags) :
                                               all_hashtags[j] = claves[i]})),
                     hashtag |-> claves[i]]]
        orden == Take(StableSortDesc(items), n)
    IN  [i \in 1..Len(orden) |-> [hashtag |-> orden[i].hashtag, count |-> orden[i].k.n]]

\* one iteration of that loop keeping the counter of emitted topics only
TrasLlamadaSoloEmitidos(acc, r) ==
    [llamadas |-> Append(acc.llamadas, [topic |-> r.topic, previas |-> r.previas,
                                        emitido |-> r.emitido]),
     store |-> IF r.emitido THEN r.store ELSE acc.store]

\* one iteration of the loop of extract_hashtags_and_trends: the call of
\* _analyze_trend with its outcome r, after the calls recorded in acc
TrasLlamada(acc, r) ==
    [llamadas |-> Append(acc.llamadas, [topic |-> r.topic, previas |-> r.previas,
                                        emitido |-> r.emitido]),
     store |-> r.store]

\* the loop of extract_hashtags_and_trends over the candidates from i on
RECURSIVE AnalyzeCandidates(_, _, _, _, _)
AnalyzeCandidates(top, i, arts, acc, t) ==
    IF i > Len(top) THEN acc
    ELSE AnalyzeCandidates(top, i + 1, arts,
             TrasLlamada(acc, AnalyzeTrend(top[i].hashtag, top[i].count, arts,
                                           acc.store, t)),
             t)

\* trending_topics.sort(key=lambda x: x.probabilidad_viral, reverse=True)
SortByViral(topics) ==
    LET items == [i \in 1..Len(topics) |->
                    [k |-> topics[i].probabilidad_viral, topic |-> topics[i]]]
        orden == StableSortDesc(items)
    IN  [i \in 1..Len(orden) |-> orden[i].topic]

\* the topics _analyze_trend returned, in call order
Emitidos(llamadas) ==
    [i \in 1..Len(SelectSeq(llamadas, LAMBDA c : c.emitido)) |->
        SelectSeq(llamadas, LAMBDA c : c.emitido)[i].topic]

\* the end of extract_hashtags_and_trends, after its loop left r
TrasCandidatos(conTags, r) ==
    [articulos |-> conTags,
     llamadas |-> r.llamadas,
     trending_topics |-> SortByViral(Emitidos(r.llamadas)),
     store |-> r.store]

\* articulo.tags = hashtags, for every article
ConTags(arts, tagLists) ==
    [i \in 1..Len(arts) |-> [arts[i] EXCEPT !.tags = tagLists[i]]]

\* extract_hashtags_and_trends, given the list _extract_hashtags returned for
\* each article
ExtractHashtagsAndTrends(arts, tagLists, store, t) ==
    TrasCandidatos(ConTags(arts, tagLists),
                   AnalyzeCandidates(MostCommon(Concat(tagLists), 20), 1,
                                     ConTags(arts, tagLists),
                                     [llamadas |-> << >>, store |-> store], t))

\* the choices of _extract_hashtags results for the articles from i on
RECURSIVE TagListChoicesFrom(_, _)
TagListChoicesFrom(arts, i) ==
    IF i > Len(arts) THEN {<< >>}
    ELSE {<< l >> \o resto : l \in HashtagLists(Texto(arts[i])),
                             resto \in TagListChoicesFrom(arts, i + 1)}

TagListChoices(arts) == TagListChoicesFrom(arts, 1)

-----------------------------------------------------------------------------
(* Collective analysis: analyze_collective_sentiment,                      *)
(* _calculate_social_tension, _detect_conflict_indicators                  *)

emociones_negativas == {"enojo", "miedo", "tristeza", "disgusto"}

\* sum of the scores of the negative emotions of one article
RECURSIVE IntensidadNegativa(_)
IntensidadNegativa(emociones) ==
    IF emociones = << >> THEN RInt(0)
    ELSE RAdd(IF Head(emociones).emocion \in emociones_negativas
              THEN Head(emociones).score ELSE RInt(0),
              IntensidadNegativa(Tail(emociones)))

\* the tension score without its final min(tension, 100.0)
CalculateSocialTensionSinTope(arts, topics) ==
    LET negativos == Cardinality({i \in 1..Len(arts) : arts[i].sentimiento = NEGATIVO})
        ratio_negativos == IF Len(arts) > 0 THEN Rat(negativos, Len(arts)) ELSE RInt(0)
        suma == RSum([i \in 1..Len(arts) |-> IntensidadNegativa(arts[i].emociones)])
        intensidad_negativa == RDivInt(suma, IF Len(arts) > 0 THEN Len(arts) ELSE 1)
        trending_explosivo ==
            Cardinality({i \in 1..Len(topics) : RLess(RInt(100), topics[i].crecimiento_24h)})
        ratio_explosivo ==
            IF Len(topics) > 0 THEN Rat(trending_explosivo, Len(topics)) ELSE RInt(0)
        tension ==
            RMul(RAdd(RAdd(RMul(ratio_negativos, RInt(40)),
                           RMul(intensidad_negativa, RInt(30))),
                      RMul(ratio_explosivo, RInt(30))),
                 RInt(100))
    IN  tension

\* _calculate_social_tension
CalculateSocialTension(arts, topics) ==
    LET negativos == Cardinality({i \in 1..Len(arts) : arts[i].sentimiento = NEGATIVO})
        ratio_negativos == IF Len(arts) > 0 THEN Rat(negativos, Len(arts)) ELSE RInt(0)
        suma == RSum([i \in 1..Len(arts) |-> IntensidadNegativa(arts[i].emociones)])
        intensidad_negativa == RDivInt(suma, IF Len(arts) > 0 THEN Len(arts) ELSE 1)
        trending_explosivo ==
            Cardinality({i \in 1..Len(topics) : RLess(RInt(100), topics[i].crecimiento_24h)})
        ratio_explosivo ==
            IF Len(topics) > 0 THEN Rat(trending_explosivo, Len(topics)) ELSE RInt(0)
        tension ==
            RMul(RAdd(RAdd(RMul(ratio_negativos, RInt(40)),
                           RMul(intensidad_negativa, RInt(30))),
                      RMul(ratio_explosivo, RInt(30))),
                 RInt(100))
    IN  RMin(tension, RInt(100))

conflict_keywords ==
    << <<"p", "r", "o", "t", "e", "s", "t", "a">>,
       <<"m", "a", "n", "i", "f", "e", "s", "t", "a", "c", "i", "ó", "n">>,
       <<"p", "a", "r", "o">>,
       <<"h", "u", "e", "l", "g", "a">>,
       <<"r", "e", "c", "l", "a", "m", "o">>,
       <<"c", "r", "i", "s", "i", "s">>,
       <<"c", "o", "n", "f", "l", "i", "c", "t", "o">>,
       <<"t", "e", "n", "s", "i", "ó", "n">>,
       <<"e", "n", "f", "r", "e", "n", "t", "a", "m", "i", "e", "n", "t", "o">>,
       <<"v", "i", "o", "l", "e", "n", "c", "i", "a">>,
       <<"r", "e", "p", "r", "e", "s", "i", "ó", "n">>,
       <<"d", "e", "s", "c", "o", "n", "t", "e", "n", "t", "o">>,
       <<"i", "n", "d", "i", "g", "n", "a", "c", "i", "ó", "n">> >>

HasConflictKeyword(text) ==
    \E i \in 1..Len(conflict_keywords) : IsSubstring(conflict_keywords[i], Lower(text))

\* the indicator lines with the headline threshold taken inclusively
DetectConflictIndicatorsUmbralInclusivo(arts, topics) ==
    LET top10 == Take(topics, 10)
        hits == SelectSeq(top10, LAMBDA tp : HasConflictKeyword(tp.hashtag))
        trending == [i \in 1..Len(hits) |->
                        [tipo |-> "trending", hashtag |-> hits[i].hashtag,
                         menciones |-> hits[i].menciones,
                         crecimiento_24h |-> hits[i].crecimiento_24h]]
        titulares_conflicto ==
            Cardinality({i \in 1..Len(arts) : HasConflictKeyword(arts[i].titulo)})
    IN  IF RLeq(RMul(RInt(Len(arts)), Rat(2, 10)), RInt(titulares_conflicto))
           /\ arts # << >>
        THEN Append(trending, [tipo |-> "titulares", hashtag |-> << >>,
                               menciones |-> titulares_conflicto,
                               crecimiento_24h |-> Rat(titulares_conflicto * 100, Len(arts))])
        ELSE trending

\* the indicator lines, as records holding the values each line formats
DetectConflictIndicators(arts, topics) ==
    LET top10 == Take(topics, 10)
        hits == SelectSeq(top10, LAMBDA tp : HasConflictKeyword(tp.hashtag))
        trending == [i \in 1..Len(hits) |->
                        [tipo |-> "trending", hashtag |-> hits[i].hashtag,
                         menciones |-> hits[i].menciones,
                         crecimiento_24h |-> hits[i].crecimiento_24h]]
        titulares_conflicto ==
            Cardinality({i \in 1..Len(arts) : HasConflictKeyword(arts[i].titulo)})
    IN  IF RLess(RMul(RInt(Len(arts)), Rat(2, 10)), RInt(titulares_conflicto))
        THEN Append(trending, [tipo |-> "titulares", hashtag |-> << >>,
                               menciones |-> titulares_conflicto,
                               crecimiento_24h |-> Rat(titulares_conflicto * 100, Len(arts))])
        ELSE trending

\* {emocion: np.mean(scores)} over the articles that report the emotion
DistribucionEmociones(arts) ==
    LET scores(e) ==
            LET con == SelectSeq(arts, LAMBDA a :
                          \E j \in 1..Len(a.emociones) : a.emociones[j].emocion = e)
            IN  [i \in 1..Len(con) |->
                    (CHOOSE it \in Range(con[i].emociones) : it.emocion = e).score]
    IN  [e \in {x \in Emocion : scores(x) # << >>} |-> RMean(scores(e))]

\* Counter(sentimientos).most_common(1)[0][0]; IndexError on an empty batch
PolaridadDominante(arts) ==
    LET sentimientos == [i \in 1..Len(arts) |-> arts[i].sentimiento]
        top == MostCommon(sentimientos, 1)
    IN  IF top = << >> THEN "IndexError" ELSE top[1].hashtag

\* analyze_collective_sentiment: None when it raises
AnalyzeCollectiveSentiment(arts, topics) ==
    IF PolaridadDominante(arts) = "IndexError" THEN None
    ELSE Some([periodo |-> "24h",
               distribucion_emociones |-> DistribucionEmociones(arts),
               polaridad_dominante |-> PolaridadDominante(arts),
               temas_calientes |-> Take(topics, 10),
               nivel_tension_social |-> CalculateSocialTension(arts, topics),
               indicadores_conflicto |-> DetectConflictIndicators(arts, topics)])

-----------------------------------------------------------------------------
(* run_full_analysis *)

\* the ':24h' counters another writer may have left in Redis before start-up
RedisIniciales ==
    LET claves == {RedisKey24h(<<"#", "p", "a", "r", "o">>),
                   RedisKey24h(<<"#", "d", "o", "l", "a", "r">>)}
    IN  UNION { [ks -> [val : 1..MaxPrior, exp : {NoExpiry}]] : ks \in SUBSET claves }

VectorIdle ==
    /\ vector_index = << >>
    /\ audio_transcriptions = << >>
    /\ almacenados = << >>
    /\ resultados = None

InitCrawler ==
    /\ pc = "idle"
    /\ now = 0
    /\ articulos = << >>
    /\ idx = 1
    /\ trending_topics = << >>
    /\ candidatos = << >>
    /\ analisis = None
    /\ llamada = None
    /\ excepcion = None
    /\ VectorIdle

\* start-up against a Redis that earlier runs and other writers have filled:
\* their effect is the initial content, and one run is analysed
Init ==
    /\ InitCrawler
    /\ runs = 1
    /\ redis \in RedisIniciales
    /\ redis_up \in BOOLEAN

\* construction against a Redis that only this program writes
InitClosed ==
    /\ InitCrawler
    /\ runs = MaxRuns
    /\ redis = RedisVacio
    /\ redis_up = TRUE

vectorVars == << vector_index, audio_transcriptions, almacenados, resultados >>

Parado == pc \in {"idle", "done", "error"}

\* step 1: the articles the portals returned
Scrape ==
    /\ Parado
    /\ runs > 0
    /\ runs' = runs - 1
    /\ \E lote \in Lotes :
          /\ articulos' = lote
          /\ pc' = IF lote = << >> THEN "trends" ELSE "sentiment"
    /\ idx' = 1
    /\ trending_topics' = << >>
    /\ candidatos' = << >>
    /\ analisis' = None
    /\ excepcion' = None
    /\ UNCHANGED << now, redis, llamada, redis_up, vectorVars >>

\* step 2 leaving the loop after the first article
AnalyzeSentimentSaleDelLazo ==
    /\ pc = "sentiment"
    /\ idx <= Len(articulos)
    /\ \E c \in Clasificaciones :
          articulos' = [articulos EXCEPT ![idx] = AnalyzeSentimentOf(@, c)]
    /\ idx' = idx + 1
    /\ pc' = "trends"
    /\ UNCHANGED << runs, now, redis, trending_topics, candidatos, analisis,
                    llamada, redis_up, excepcion, vectorVars >>

\* step 2: analyze_sentiment of the next article
AnalyzeSentiment ==
    /\ pc = "sentiment"
    /\ idx <= Len(articulos)
    /\ \E c \in Clasificaciones :
          /\ \A j \in 1..(idx - 1) :
                Texto(articulos[j]) = Texto(articulos[idx])
                    => MismaClasificacion(articulos[j],
                                          AnalyzeSentimentOf(articulos[idx], c))
          /\ articulos' = [articulos EXCEPT ![idx] = AnalyzeSentimentOf(@, c)]
    /\ idx' = idx + 1
    /\ pc' = IF idx = Len(articulos) THEN "trends" ELSE "sentiment"
    /\ UNCHANGED << runs, now, redis, trending_topics, candidatos, analisis,
                    llamada, redis_up, excepcion, vectorVars >>

\* step 2 when a transformers pipeline raises: analyze_sentiment has no
\* handler and neither has the loop of run_full_analysis, so the run ends
\* with the exception.  sentiment_analyzer raises before anything is
\* assigned; emotion_analyzer raises after sentimiento and score are.
AnalyzeSentimentRaises ==
    /\ pc = "sentiment"
    /\ idx <= Len(articulos)
    /\ \/ UNCHANGED articulos
       \/ \E c \in Clasificaciones :
             articulos' = [articulos EXCEPT
                 ![idx] = [AnalyzeSentimentOf(@, c) EXCEPT !.emociones = << >>]]
    /\ pc' = "error"
    /\ excepcion' = Some("PipelineError")
    /\ UNCHANGED << runs, now, redis, idx, trending_topics, candidatos, analisis,
                    llamada, redis_up, vectorVars >>

\* step 3: extract_hashtags_and_trends
DetectTrends ==
    /\ pc = "trends"
    /\ \E tagLists \in TagListChoices(articulos) :
          IF redis_up \/ Concat(tagLists) = << >>
          THEN \E r \in {ExtractHashtagsAndTrends(articulos, tagLists, redis, now)} :
                  /\ articulos' = r.articulos
                  /\ trending_topics' = r.trending_topics
                  /\ candidatos' = r.llamadas
                  /\ redis' = r.store
                  /\ pc' = "collective"
                  /\ UNCHANGED excepcion
          ELSE \* redis_client.get of the first candidate raises
               /\ articulos' = ConTags(articulos, tagLists)
               /\ pc' = "error"
               /\ excepcion' = Some("ConnectionError")
               /\ UNCHANGED << trending_topics, candidatos, redis >>
    /\ UNCHANGED << runs, now, idx, analisis, llamada, redis_up, vectorVars >>

\* step 4: analyze_collective_sentiment and the return of the run
CollectiveAnalysis ==
    /\ pc = "collective"
    /\ analisis' = AnalyzeCollectiveSentiment(articulos, trending_topics)
    /\ pc' = IF analisis' = None THEN "error" ELSE "done"
    /\ excepcion' = IF analisis' = None THEN Some("IndexError") ELSE None
    /\ UNCHANGED << runs, now, redis, articulos, idx, trending_topics,
                    candidatos, llamada, redis_up, vectorVars >>

\* the window length passes between two runs, while a counter is alive:
\* Redis drops the keys whose time to live has run out
Tick ==
    /\ Parado
    /\ now < MaxTicks * WindowTTL
    /\ \E k \in DOMAIN redis : redis[k].exp > now
    /\ now' = now + WindowTTL
    /\ redis' = [k \in {j \in DOMAIN redis : redis[j].exp = NoExpiry
                                              \/ redis[j].exp > now'} |-> redis[k]]
    /\ UNCHANGED << pc, runs, articulos, idx, trending_topics,
                    candidatos, analisis, llamada, redis_up, excepcion,
                    vectorVars >>

Next ==
    \/ Scrape
    \/ AnalyzeSentiment
    \/ AnalyzeSentimentRaises
    \/ DetectTrends
    \/ CollectiveAnalysis
    \/ Tick

Spec == Init /\ [][Next]_vars

SpecClosed == InitClosed /\ [][Next]_vars

-----------------------------------------------------------------------------
(* Step 1 of run_full_analysis in detail: one call of scrape_news_portal   *)
(* per member of FuenteNoticia.  idx is the position of the loop over the  *)
(* sources, llamada the record of the calls made so far.                   *)

\* the members of the enum, in definition order
FuenteNoticia ==
    <<"clarin", "lanacion", "pagina12", "infobae", "ambito", "perfil", "cronista">>

\* the keys of the portal configuration
PORTALES_ARGENTINA == {"clarin", "lanacion", "infobae", "pagina12"}

\* what the network answers for one portal: the front page fails, or it
\* yields links, and _scrape_article on each link returns an article,
\* returns None or raises
RespuestasPortal ==
    { [home |-> "error", links |-> << >>] }
    \cup { [home |-> "ok", links |-> l] :
             l \in { << >>, <<"articulo">>, <<"error", "articulo">>, <<"none">> } }

\* the loop over the links that ends at the first link that raises
RECURSIVE ScrapeLinksHastaError(_, _, _, _)
ScrapeLinksHastaError(links, i, fuente, acc) ==
    IF i > Len(links) \/ links[i] = "error" THEN acc
    ELSE ScrapeLinksHastaError(links, i + 1, fuente,
             [articulos |->
                  IF links[i] = "articulo"
                  THEN Append(acc.articulos,
                              Articulo(<< fuente, i >>, <<"#", "p", "a", "r", "o">>, << >>))
                  ELSE acc.articulos,
              intentados |-> acc.intentados + 1])

\* the loop of scrape_news_portal over article_links from link i on: an
\* exception of _scrape_article is logged and the loop goes on
RECURSIVE ScrapeLinks(_, _, _, _)
ScrapeLinks(links, i, fuente, acc) ==
    IF i > Len(links) THEN acc
    ELSE ScrapeLinks(links, i + 1, fuente,
             [articulos |->
                  IF links[i] = "articulo"
                  THEN Append(acc.articulos,
                              Articulo(<< fuente, i >>, <<"#", "p", "a", "r", "o">>, << >>))
                  ELSE acc.articulos,
              intentados |-> acc.intentados + 1])

\* scrape_news_portal(fuente): the exception it raises, or its articles
ScrapeNewsPortal(fuente, resp) ==
    IF fuente \notin PORTALES_ARGENTINA
    THEN [excepcion |-> Some("KeyError"), articulos |-> << >>,
          links |-> << >>, intentados |-> 0]
    ELSE IF resp.home = "error"
    THEN [excepcion |-> Some("ClientError"), articulos |-> << >>,
          links |-> << >>, intentados |-> 0]
    ELSE [excepcion |-> None,
          articulos |-> ScrapeLinks(resp.links, 1, fuente,
                            [articulos |-> << >>, intentados |-> 0]).articulos,
          links |-> resp.links,
          intentados |-> ScrapeLinks(resp.links, 1, fuente,
                            [articulos |-> << >>, intentados |-> 0]).intentados]

InitScrape ==
    /\ pc = "scrape"
    /\ runs = 0
    /\ now = 0
    /\ redis = RedisVacio
    /\ redis_up = TRUE
    /\ articulos = << >>
    /\ idx = 1
    /\ trending_topics = << >>
    /\ candidatos = << >>
    /\ analisis = None
    /\ llamada = << >>
    /\ excepcion = None
    /\ VectorIdle

\* one iteration of the loop over FuenteNoticia: the call, its exception
\* caught and logged, its articles added to all_articulos
ScrapePortal ==
    /\ pc = "scrape"
    /\ idx <= Len(FuenteNoticia)
    /\ \E resp \in RespuestasPortal :
          \E r \in {ScrapeNewsPortal(FuenteNoticia[idx], resp)} :
             /\ articulos' = articulos \o r.articulos
             /\ llamada' = Append(llamada,
                               [fuente |-> FuenteNoticia[idx],
                                excepcion |-> r.excepcion,
                                links |-> r.links,
                                intentados |-> r.intentados])
    /\ idx' = IF idx < Len(FuenteNoticia) THEN idx + 1 ELSE 1
    /\ pc' = IF idx < Len(FuenteNoticia) THEN "scrape"
             ELSE IF articulos' = << >> THEN "trends" ELSE "sentiment"
    /\ excepcion' = None
    /\ UNCHANGED << runs, now, redis, trending_topics, candidatos, analisis,
                    redis_up, vectorVars >>

NextScrape ==
    \/ ScrapePortal
    \/ AnalyzeSentiment
    \/ AnalyzeSentimentRaises
    \/ DetectTrends
    \/ CollectiveAnalysis

SpecScrape == InitScrape /\ [][NextScrape]_vars

-----------------------------------------------------------------------------
(* Direct calls of the scoring methods: the arguments are drawn at the     *)
(* start, one step applies the method                                      *)

MaxTrends == 2      \* trends in a list passed to _calculate_social_tension

\* the batches after step 2 of run_full_analysis, from article i on
RECURSIVE Analizados(_, _)
Analizados(lote, i) ==
    IF i > Len(lote) THEN {<< >>}
    ELSE {<< AnalyzeSentimentOf(lote[i], c) >> \o resto :
            c \in Clasificaciones, resto \in Analizados(lote, i + 1)}

LotesAnalizados ==
    {arts \in UNION {Analizados(lote, 1) : lote \in Lotes} :
        \A i, j \in 1..Len(arts) :
            Texto(arts[i]) = Texto(arts[j]) => MismaClasificacion(arts[i], arts[j])}

MencionesEntrada == {0, 1, 6, 100, 250}
CrecimientosEntrada == {RInt(-100), RInt(-50), RInt(0), RInt(100), RInt(200), RInt(500)}
VelocidadesEntrada == {RInt(0), Rat(1, 24), RInt(10), Rat(25, 2)}
IntensidadesEntrada == {RInt(0), Rat(1, 2), RInt(1)}

ActualesEntrada == {1, 3, 5, 6, 10, 100}
PreviasEntrada == (0..MaxPrior) \cup {5, 100}
HashtagsEntrada == {<<"#", "p", "a", "r", "o">>, <<"#", "d", "o", "l", "a", "r">>}

\* Redis before a call of _analyze_trend for h: no ':24h' counter, a live
\* one, or one that expired at time 0
RedisEntradas(h) ==
    {RedisVacio}
    \cup {[k \in {RedisKey24h(h)} |-> [val |-> v, exp |-> NoExpiry]] : v \in PreviasEntrada}
    \cup {[k \in {RedisKey24h(h)} |-> [val |-> 5, exp |-> 0]]}

\* TrendingTopic lists as _analyze_trend builds them, by growth
TemasEntrada ==
    UNION { [1..n -> { [hashtag |-> <<"#", "p", "a", "r", "o">>,
                        menciones |-> 6,
                        crecimiento_24h |-> g,
                        velocidad |-> Rat(6, 24),
                        sentimiento_promedio |-> RInt(0),
                        articulos_relacionados |-> << >>,
                        probabilidad_viral |-> Rat(1, 2)] :
                       g \in {RInt(0), RInt(100), RInt(150)} }] : n \in 0..MaxTrends }

\* tags an article may carry before extract_hashtags_and_trends is called
TagsPrevios == { << >>, << <<"#", "s", "o", "s">> >> }

\* analysed batches whose articles carry tags already
LotesEtiquetados ==
    { [i \in 1..Len(arts) |-> [arts[i] EXCEPT !.tags = previos]] :
        arts \in LotesAnalizados, previos \in TagsPrevios }

MaxTitulares == 5   \* articles in a batch passed to _detect_conflict_indicators

\* batches of n articles of which the first k have a conflict keyword in the
\* title; the others have it in the body only
LotesTitulares ==
    { [i \in 1..n |->
         IF i <= k THEN Articulo(i, <<"P", "A", "R", "O">>, << >>)
         ELSE Articulo(i, <<"d", "o", "l", "a", "r">>, <<"p", "a", "r", "o">>)] :
        n \in 0..MaxTitulares, k \in 0..MaxTitulares }

\* a TrendingTopic by its token
TemaDe(hashtag) ==
    [hashtag |-> hashtag, menciones |-> 6, crecimiento_24h |-> RInt(100),
     velocidad |-> Rat(6, 24), sentimiento_promedio |-> RInt(0),
     articulos_relacionados |-> << >>, probabilidad_viral |-> Rat(1, 2)]

\* trend lists around the length 10: the tokens at the positions of P hold a
\* conflict keyword
TemasConflictoEntrada ==
    { [i \in 1..n |-> TemaDe(IF i \in P THEN <<"#", "P", "a", "r", "o">>
                                         ELSE <<"#", "d", "o", "l", "a", "r">>)] :
        n \in {0, 1, 2, 10, 11, 12},
        P \in {{}, {1}, {2, 11}, {10, 11, 12}, 1..12} }

\* a title with 21 explicit hashtags, none longer than 3 characters
TituloAmplio ==
    Concat([i \in 1..21 |->
        <<"#">> \o
        << <<"a">>, <<"o">>, <<"e">>, <<"u">>, <<"p">>, <<"r">>, <<"s">>,
           <<"d">>, <<"l">>, <<"n">>, <<"g">>, <<"a", "a">>, <<"a", "o">>,
           <<"a", "e">>, <<"a", "u">>, <<"a", "p">>, <<"a", "r">>,
           <<"a", "s">>, <<"a", "d">>, <<"a", "l">>, <<"a", "n">> >>[i]
        \o <<" ">>])

\* analysed batches of two articles with more than 20 tokens between them:
\* the second repeats the last two hashtags of the first
LotesAmplios ==
    { << AnalyzeSentimentOf(Articulo(1, TituloAmplio, << >>), c1),
         AnalyzeSentimentOf(
             Articulo(2, <<"#", "a", "l", " ", "#", "a", "n">>, << >>), c2) >> :
        c1 \in Clasificaciones, c2 \in Clasificaciones }

SinLlamada ==
    [op |-> "none", hashtag |-> << >>, menciones |-> 0, crecimiento |-> RInt(0),
     velocidad |-> RInt(0), intensidad |-> RInt(0), hecho |-> FALSE,
     previas |-> 0, emitido |-> FALSE, resultado |-> RInt(0)]

InitUnit ==
    /\ pc = "unit"
    /\ redis_up = TRUE
    /\ excepcion = None
    /\ runs = 0
    /\ now = 0
    /\ idx = 1
    /\ candidatos = << >>
    /\ analisis = None
    /\ VectorIdle
    /\ \/ /\ \E m \in MencionesEntrada, g \in CrecimientosEntrada,
                v \in VelocidadesEntrada, s \in IntensidadesEntrada :
                llamada = Some([SinLlamada EXCEPT !.op = "viral", !.menciones = m,
                                  !.crecimiento = g, !.velocidad = v, !.intensidad = s])
          /\ articulos = << >>
          /\ trending_topics = << >>
          /\ redis = RedisVacio
       \/ /\ \E h \in HashtagsEntrada :
                /\ \E m \in ActualesEntrada :
                      llamada = Some([SinLlamada EXCEPT !.op = "trend", !.hashtag = h,
                                        !.menciones = m])
                /\ redis \in RedisEntradas(h)
          /\ articulos \in LotesAnalizados
          /\ trending_topics = << >>
       \/ /\ llamada = Some([SinLlamada EXCEPT !.op = "tension"])
          /\ articulos \in LotesAnalizados
          /\ trending_topics \in TemasEntrada
          /\ redis = RedisVacio
       \/ /\ llamada = Some([SinLlamada EXCEPT !.op = "conflict"])
          /\ articulos \in LotesTitulares
          /\ trending_topics \in TemasConflictoEntrada
          /\ redis = RedisVacio
       \/ /\ llamada = Some([SinLlamada EXCEPT !.op = "extract"])
          /\ articulos \in LotesEtiquetados \cup LotesAmplios
          /\ trending_topics = << >>
          /\ redis = RedisVacio

crawlerLocals ==
    << runs, now, articulos, idx, candidatos, analisis, redis_up, excepcion >>

\* _calculate_viral_probability(menciones, crecimiento, velocidad, intensidad)
CallViralProbability ==
    /\ pc = "unit"
    /\ llamada[1].op = "viral"
    /\ llamada' = Some([llamada[1] EXCEPT
            !.hecho = TRUE,
            !.resultado = CalculateViralProbability(llamada[1].menciones,
                              llamada[1].crecimiento, llamada[1].velocidad,
                              llamada[1].intensidad)])
    /\ pc' = "returned"
    /\ UNCHANGED << redis, trending_topics, crawlerLocals, vectorVars >>

\* _analyze_trend(hashtag, menciones_actuales, articulos)
CallAnalyzeTrend ==
    /\ pc = "unit"
    /\ llamada[1].op = "trend"
    /\ LET r == AnalyzeTrend(llamada[1].hashtag, llamada[1].menciones,
                             articulos, redis, now)
       IN  /\ llamada' = Some([llamada[1] EXCEPT
                   !.hecho = TRUE,
                   !.previas = r.previas,
                   !.emitido = r.emitido,
                   !.crecimiento = r.topic.crecimiento_24h,
                   !.velocidad = r.topic.velocidad,
                   !.intensidad = RAbs(r.topic.sentimiento_promedio),
                   !.resultado = r.topic.probabilidad_viral])
           /\ trending_topics' = IF r.emitido THEN << r.topic >> ELSE << >>
           /\ redis' = r.store
    /\ pc' = "returned"
    /\ UNCHANGED << crawlerLocals, vectorVars >>

\* _calculate_social_tension(articulos, trending_topics)
CallSocialTension ==
    /\ pc = "unit"
    /\ llamada[1].op = "tension"
    /\ llamada' = Some([llamada[1] EXCEPT
            !.hecho = TRUE,
            !.resultado = CalculateSocialTension(articulos, trending_topics)])
    /\ pc' = "returned"
    /\ UNCHANGED << redis, trending_topics, crawlerLocals, vectorVars >>

\* extract_hashtags_and_trends(articulos)
CallExtractHashtagsAndTrends ==
    /\ pc = "unit"
    /\ llamada[1].op = "extract"
    /\ \E tagLists \in TagListChoices(articulos) :
          \E r \in {ExtractHashtagsAndTrends(articulos, tagLists, redis, now)} :
             /\ articulos' = r.articulos
             /\ trending_topics' = r.trending_topics
             /\ candidatos' = r.llamadas
             /\ redis' = r.store
    /\ llamada' = Some([llamada[1] EXCEPT !.hecho = TRUE])
    /\ pc' = "returned"
    /\ UNCHANGED << runs, now, idx, analisis, redis_up, excepcion, vectorVars >>

\* _detect_conflict_indicators(articulos, trending_topics)
CallDetectConflictIndicators ==
    /\ pc = "unit"
    /\ llamada[1].op = "conflict"
    /\ llamada' = Some([llamada[1] EXCEPT
            !.hecho = TRUE,
            !.resultado = DetectConflictIndicators(articulos, trending_topics)])
    /\ pc' = "returned"
    /\ UNCHANGED << redis, trending_topics, crawlerLocals, vectorVars >>

NextUnit ==
    \/ CallViralProbability
    \/ CallAnalyzeTrend
    \/ CallSocialTension
    \/ CallDetectConflictIndicators
    \/ CallExtractHashtagsAndTrends

SpecUnit == InitUnit /\ [][NextUnit]_vars

\* the crawler as a whole: a run of run_full_analysis, or one of its
\* functions called directly
InitCrawlerAny == Init \/ InitUnit

NextCrawlerAny ==
    \/ Next
    \/ NextUnit

SpecCrawler == InitCrawlerAny /\ [][NextCrawlerAny]_vars

-----------------------------------------------------------------------------
(* Two runs of the program against one Redis server, each inside a call    *)
(* of _analyze_trend.  The server executes one command at a time; the      *)
(* commands of the two runs interleave freely.  llamada holds the two      *)
(* calls.                                                                  *)

Corridas == {1, 2}

\* the calls of _analyze_trend the two runs are about to make
LlamadasSolapadas ==
    { << [hashtag |-> h1, menciones |-> m1, fase |-> "get", previas |-> 0],
         [hashtag |-> h2, menciones |-> m2, fase |-> "get", previas |-> 0] >> :
        h1 \in HashtagsEntrada, h2 \in HashtagsEntrada,
        m1 \in 1..MaxDocs, m2 \in 1..MaxDocs }

InitOverlap ==
    /\ pc = "overlap"
    /\ redis_up = TRUE
    /\ excepcion = None
    /\ runs = 0
    /\ now = 0
    /\ articulos = << >>
    /\ idx = 1
    /\ trending_topics = << >>
    /\ candidatos = << >>
    /\ analisis = None
    /\ VectorIdle
    /\ llamada \in LlamadasSolapadas
    /\ redis \in UNION {RedisEntradas(h) : h \in HashtagsEntrada}

\* menciones_previas = self.redis_client.get(f"{redis_key}:24h") of run p
TrendGet(p) ==
    /\ pc = "overlap"
    /\ llamada[p].fase = "get"
    /\ llamada' = [llamada EXCEPT
            ![p].previas = MencionesPrevias(redis, llamada[p].hashtag, now),
            ![p].fase = "setex"]
    /\ UNCHANGED << pc, redis, trending_topics, crawlerLocals, vectorVars >>

\* self.redis_client.setex(redis_key, 86400, menciones_actuales) of run p
TrendSetex(p) ==
    /\ pc = "overlap"
    /\ llamada[p].fase = "setex"
    /\ redis' = RedisSetex(redis, RedisKey(llamada[p].hashtag), WindowTTL,
                           llamada[p].menciones, now)
    /\ llamada' = [llamada EXCEPT ![p].fase = "fin"]
    /\ UNCHANGED << pc, trending_topics, crawlerLocals, vectorVars >>

NextOverlap ==
    \/ \E p \in Corridas : TrendGet(p)
    \/ \E p \in Corridas : TrendSetex(p)

SpecOverlap == InitOverlap /\ [][NextOverlap]_vars

-----------------------------------------------------------------------------
(* osint-asr-pipeline.py: vector storage and semantic search.              *)
(* Two pipelines, one per vector_db_type, receive the same calls:          *)
(* vector_index is the index of the "pinecone" one, audio_transcriptions   *)
(* the table of the "pgvector" one.  Embeddings are short integer vectors; *)
(* a text is represented by its name and its length.                       *)

MaxUpserts == 2     \* _store_in_vector_db calls per behaviour

\* the prefix length _store_pinecone keeps of the transcription
TranscriptionLimit == 1000

\* text[:n]
Truncate(text, n) == [text EXCEPT !.largo = IF @ < n THEN @ ELSE n]

\* ProcessedAudio values process_audio_stream may build
Procesados ==
    { [source |-> [id |-> id, channel_name |-> "canal", source_type |-> "radio"],
       transcription |-> v.transcription, temas |-> v.temas, actors |-> v.actors,
       keywords |-> <<"paro">>, embeddings |-> v.embeddings, processed_at |-> 1] :
        id \in {"s1", "s2"},
        v \in { [transcription |-> [nombre |-> "t1", largo |-> 500],
                 temas |-> <<"politica">>, actors |-> << >>,
                 embeddings |-> <<1, 0>>],
                [transcription |-> [nombre |-> "t2", largo |-> 500],
                 temas |-> <<"seguridad", "politica">>, actors |-> << >>,
                 embeddings |-> <<0, 1>>],
                [transcription |-> [nombre |-> "t3", largo |-> 1500],
                 temas |-> << >>,
                 actors |-> << [name |-> "Milei", mentions |-> 2] >>,
                 embeddings |-> <<1, 1>>] } }

\* dimension=384 of the Pinecone index and vector(384) of the table, at the
\* scale of the embeddings above
Dimension == 2

\* ProcessedAudio values whose embeddings have another length
ProcesadosOtraDimension ==
    { [source |-> [id |-> "s1", channel_name |-> "canal", source_type |-> "radio"],
       transcription |-> [nombre |-> "t1", largo |-> 500],
       temas |-> <<"politica">>, actors |-> << >>,
       keywords |-> <<"paro">>, embeddings |-> e, processed_at |-> 1] :
        e \in {<<1>>, <<1, 0, 1>>} }

ConsultasEmbedding == {<<1, 0>>, <<1, 1>>}
ConsultasTopK == {1, 10}
ConsultasFiltro == {<< >>, <<"politica">>, <<"seguridad">>}

\* _store_pinecone: vector_index.upsert replaces the record of the id
StorePinecone(index, processed) ==
    LET metadata ==
            [source_id |-> processed.source.id,
             channel_name |-> processed.source.channel_name,
             transcription |-> Truncate(processed.transcription, TranscriptionLimit),
             temas |-> processed.temas,
             actors |-> [i \in 1..Len(processed.actors) |-> processed.actors[i].name],
             keywords |-> processed.keywords,
             processed_at |-> processed.processed_at]
    IN  [id \in DOMAIN index \cup {processed.source.id} |->
            IF id = processed.source.id
            THEN [values |-> processed.embeddings, metadata |-> metadata]
            ELSE index[id]]

\* _store_pgvector: INSERT of a new row, id from the SERIAL sequence
StorePgvector(tabla, processed) ==
    Append(tabla,
           [id |-> Len(tabla) + 1,
            source_id |-> processed.source.id,
            channel_name |-> processed.source.channel_name,
            transcription |-> processed.transcription,
            temas |-> processed.temas,
            actors |-> [i \in 1..Len(processed.actors) |->
                          [name |-> processed.actors[i].name,
                           mentions |-> processed.actors[i].mentions]],
            keywords |-> processed.keywords,
            embedding |-> processed.embeddings,
            metadata |-> [source_type |-> processed.source.source_type]])

\* _store_in_vector_db of a pipeline with the given vector_db_type, on the
\* pair of stores [index, tabla]
StoreInVectorDb(vector_db_type, db, processed) ==
    IF vector_db_type = "pinecone"
    THEN [db EXCEPT !.index = StorePinecone(@, processed)]
    ELSE IF vector_db_type = "pgvector"
    THEN [db EXCEPT !.tabla = StorePgvector(@, processed)]
    ELSE db

RECURSIVE Dot(_, _)
Dot(a, b) == IF a = << >> THEN 0 ELSE Head(a) * Head(b) + Dot(Tail(a), Tail(b))

\* cosine similarity of a and q as the rational sign(a.q) * cos^2: it orders
\* vectors as the cosine does
Cosine(a, q) ==
    Rat((IF Dot(a, q) < 0 THEN -1 ELSE 1) * Dot(a, q) * Dot(a, q),
        Dot(a, a) * Dot(q, q))

\* the listings of the set S by key, smallest first
SortedListingsAscendente(S, key) ==
    {l \in Orderings(S) :
        \A i \in 1..(Len(l) - 1) : RLeq(key[l[i]], key[l[i + 1]])}

\* the listings of the set S by key, largest first; equal keys in any order
SortedListings(S, key) ==
    {l \in Orderings(S) :
        \A i \in 1..(Len(l) - 1) : RLeq(key[l[i + 1]], key[l[i]])}

\* a filter that only asks for a tagged record
OverlapsSoloEtiquetado(temas, filtro) == temas # << >> /\ filtro # << >>

\* the categorical filter of both backends: the two lists share a value
Overlaps(temas, filtro) == Range(temas) \cap Range(filtro) # {}

\* _search_pinecone: the possible results
SearchPinecone(index, query_embedding, top_k, filter_temas) ==
    LET ids == {id \in DOMAIN index :
                   filter_temas = << >> \/ Overlaps(index[id].metadata.temas, filter_temas)}
        Score(id) == Cosine(index[id].values, query_embedding)
    IN  { [i \in 1..Len(Take(l, top_k)) |->
              [score |-> Score(l[i]),
               channel |-> index[l[i]].metadata.channel_name,
               transcription |-> index[l[i]].metadata.transcription,
               temas |-> index[l[i]].metadata.temas,
               actors |-> index[l[i]].metadata.actors]] :
          l \in SortedListings(ids, [id \in ids |-> Score(id)]) }

\* _search_pgvector: the possible results
SearchPgvector(tabla, query_embedding, top_k, filter_temas) ==
    LET filas == {r \in 1..Len(tabla) :
                     filter_temas = << >> \/ Overlaps(tabla[r].temas, filter_temas)}
        Score(r) == Cosine(tabla[r].embedding, query_embedding)
    IN  { [i \in 1..Len(Take(l, top_k)) |->
              [channel |-> tabla[l[i]].channel_name,
               transcription |-> tabla[l[i]].transcription,
               temas |-> tabla[l[i]].temas,
               actors |-> tabla[l[i]].actors,
               score |-> Score(l[i])]] :
          l \in SortedListings(filas, [r \in filas |-> Score(r)]) }

\* semantic_search of a pipeline with the given vector_db_type
SemanticSearch(vector_db_type, db, query_embedding, top_k, filter_temas) ==
    IF vector_db_type = "pinecone"
    THEN SearchPinecone(db.index, query_embedding, top_k, filter_temas)
    ELSE IF vector_db_type = "pgvector"
    THEN SearchPgvector(db.tabla, query_embedding, top_k, filter_temas)
    ELSE {None}

InitVec ==
    /\ pc = "vector"
    /\ redis_up = TRUE
    /\ runs = 0
    /\ now = 0
    /\ redis = RedisVacio
    /\ articulos = << >>
    /\ idx = 1
    /\ trending_topics = << >>
    /\ candidatos = << >>
    /\ analisis = None
    /\ llamada = None
    /\ excepcion = None
    /\ VectorIdle

Bases == [index |-> vector_index, tabla |-> audio_transcriptions]

\* process_audio_stream, step 6, in both pipelines; llamada keeps the
\* argument of the call.  Neither _store_pinecone nor _store_pgvector looks
\* at the length of the embeddings: a vector of another length goes to the
\* backend, where the index (dimension=384) answers the upsert with an
\* ApiException and the column (vector(384)) the INSERT with a DataError.
Store ==
    /\ pc = "vector"
    /\ Len(almacenados) < MaxUpserts
    /\ \E processed \in Procesados \cup ProcesadosOtraDimension :
          /\ llamada' = Some(processed)
          /\ IF Len(processed.embeddings) = Dimension
             THEN /\ vector_index' =
                        StoreInVectorDb("pinecone", Bases, processed).index
                  /\ audio_transcriptions' =
                        StoreInVectorDb("pgvector", Bases, processed).tabla
                  /\ almacenados' = Append(almacenados, processed)
                  /\ excepcion' = None
             ELSE /\ excepcion' = Some("BackendError")
                  /\ UNCHANGED << vector_index, audio_transcriptions, almacenados >>
    /\ resultados' = None
    /\ UNCHANGED << pc, redis, trending_topics, runs, now, articulos, idx,
                    candidatos, analisis, redis_up >>

\* semantic_search in both pipelines, for the embedding of the query; the
\* store call before it is over
Search ==
    /\ pc = "vector"
    /\ \E q \in ConsultasEmbedding, k \in ConsultasTopK, f \in ConsultasFiltro :
          \E rp \in SemanticSearch("pinecone", Bases, q, k, f),
             rg \in SemanticSearch("pgvector", Bases, q, k, f) :
             resultados' = Some([query_embedding |-> q, top_k |-> k,
                                 filter_temas |-> f, pinecone |-> rp, pgvector |-> rg])
    /\ llamada' = None
    /\ excepcion' = None
    /\ UNCHANGED << pc, redis, trending_topics, runs, now, articulos, idx,
                    candidatos, analisis, redis_up,
                    vector_index, audio_transcriptions, almacenados >>

NextVec ==
    \/ Store
    \/ Search

SpecVec == InitVec /\ [][NextVec]_vars

-----------------------------------------------------------------------------
(* Properties *)

RMax(x, y) == IF RLess(x, y) THEN y ELSE x

\* a live counter of an earlier run under the key _analyze_trend writes
EscritoAntes(h) == RedisGet(redis, RedisKey(h), now)

\* C1: across two consecutive runs, the count a run wrote for a token, still
\* within its TTL, is the prior count the next run reads for that token.
C1_CurrentBecomesPrior ==
    [][ (pc = "trends" /\ pc' = "collective") =>
          \A i \in 1..Len(candidatos') :
              EscritoAntes(candidatos'[i].topic.hashtag) # None =>
                  candidatos'[i].previas
                      = EscritoAntes(candidatos'[i].topic.hashtag)[1] ]_vars

\* the last ProcessedAudio stored under an id
UltimoAlmacenado(hist, id) ==
    hist[CHOOSE i \in 1..Len(hist) :
            /\ hist[i].source.id = id
            /\ \A j \in (i + 1)..Len(hist) : hist[j].source.id # id]

IdsAlmacenados(hist) == {hist[i].source.id : i \in 1..Len(hist)}

\* what every query returns, per backend
Consultable(db) ==
    [c \in ConsultasEmbedding \X ConsultasTopK \X ConsultasFiltro |->
        [pinecone |-> SemanticSearch("pinecone", db, c[1], c[2], c[3]),
         pgvector |-> SemanticSearch("pgvector", db, c[1], c[2], c[3])]]

UnRegistroPorId(hist, db) ==
    \A id \in IdsAlmacenados(hist) :
        LET p == UltimoAlmacenado(hist, id)
            filas == {r \in 1..Len(db.tabla) : db.tabla[r].source_id = id}
        IN  /\ id \in DOMAIN db.index
            /\ db.index[id].values = p.embeddings
            /\ db.index[id].metadata.temas = p.temas
            /\ Cardinality(filas) = 1
            /\ \A r \in filas : /\ db.tabla[r].embedding = p.embeddings
                                /\ db.tabla[r].temas = p.temas
                                /\ db.tabla[r].transcription = p.transcription

\* C2: after any sequence of upserts each backend holds one record per id,
\* carrying the data of the last upsert for that id, and an upsert that
\* repeats the data stored under its id leaves every query result unchanged.
C2_UpsertIdempotent ==
    [][ Len(almacenados') = Len(almacenados) + 1 =>
          /\ UnRegistroPorId(almacenados',
                             [index |-> vector_index', tabla |-> audio_transcriptions'])
          /\ LET p == almacenados'[Len(almacenados')]
             IN  (/\ p.source.id \in IdsAlmacenados(almacenados)
                  /\ UltimoAlmacenado(almacenados, p.source.id) = p)
                 => Consultable([index |-> vector_index',
                                 tabla |-> audio_transcriptions'])
                        = Consultable(Bases) ]_vars

\* C3: for every store content both backends answer every query with the
\* same records in the same order.
C3_BackendsInterchangeable ==
    \A q \in ConsultasEmbedding, k \in ConsultasTopK, f \in ConsultasFiltro :
        SemanticSearch("pinecone", Bases, q, k, f)
            = SemanticSearch("pgvector", Bases, q, k, f)

\* C4: every emitted TrendingTopic has 0 <= probabilidad_viral <= 1.
C4_ViralProbabilityRange ==
    \A i \in 1..Len(trending_topics) :
        /\ RLeq(RInt(0), trending_topics[i].probabilidad_viral)
        /\ RLeq(trending_topics[i].probabilidad_viral, RInt(1))

\* a run that emitted a topic and scored a candidate whose prior count
\* exceeds its current count
C4_Witness ==
    /\ trending_topics # << >>
    /\ \E i \in 1..Len(candidatos) :
          /\ candidatos[i].previas > candidatos[i].topic.menciones
          /\ RLess(candidatos[i].topic.probabilidad_viral, RInt(0))

\* 0.30*min(m/100,1) + 0.35*min(g/200,1) + 0.25*min(v/10,1) + 0.10*s,
\* clamped to [0,1]
ViralSegunFormula(m, g, v, s) ==
    LET suma == RAdd(RAdd(RMul(Rat(30, 100), RMin(Rat(m, 100), RInt(1))),
                          RMul(Rat(35, 100), RMin(RDivInt(g, 200), RInt(1)))),
                     RAdd(RMul(Rat(25, 100), RMin(RDivInt(v, 10), RInt(1))),
                          RMul(Rat(10, 100), s)))
    IN  RMax(RInt(0), RMin(RInt(1), suma))

\* C5: the viral probability of every candidate equals the weighted sum of
\* the clipped metrics, clamped to [0,1] at both ends.
C5_ViralProbabilityFormula ==
    (llamada # None /\ llamada[1].hecho /\ llamada[1].op \in {"viral", "trend"}) =>
        llamada[1].resultado
            = ViralSegunFormula(llamada[1].menciones, llamada[1].crecimiento,
                                llamada[1].velocidad, llamada[1].intensidad)

\* 100 * (0.40*ratio_negative + 0.30*mean_negative_intensity
\*        + 0.30*ratio_explosive), clamped to [0,100]
TensionSegunFormula(arts, topics) ==
    LET n == Len(arts)
        ratio_negative ==
            IF n = 0 THEN RInt(0)
            ELSE Rat(Cardinality({i \in 1..n : arts[i].sentimiento = NEGATIVO}), n)
        suma == RSum([i \in 1..n |->
                    RSum([j \in 1..Len(arts[i].emociones) |->
                        IF arts[i].emociones[j].emocion
                              \in {"enojo", "miedo", "tristeza", "disgusto"}
                        THEN arts[i].emociones[j].score ELSE RInt(0)])])
        intensity == IF n = 0 THEN RInt(0) ELSE RDivInt(suma, n)
        ratio_explosive ==
            IF topics = << >> THEN RInt(0)
            ELSE Rat(Cardinality({i \in 1..Len(topics) :
                                    RLess(RInt(100), topics[i].crecimiento_24h)}),
                     Len(topics))
        valor == RMul(RInt(100),
                      RAdd(RAdd(RMul(Rat(40, 100), ratio_negative),
                                RMul(Rat(30, 100), intensity)),
                           RMul(Rat(30, 100), ratio_explosive)))
    IN  RMax(RInt(0), RMin(RInt(100), valor))

\* C6: the social tension score equals 100 * (0.40*ratio_negative +
\* 0.30*mean negative emotion intensity + 0.30*ratio of explosive trends over
\* the whole trend list), clamped to [0,100].
C6_SocialTensionFormula ==
    (llamada # None /\ llamada[1].hecho /\ llamada[1].op = "tension") =>
        llamada[1].resultado = TensionSegunFormula(articulos, trending_topics)

\* C7: the social tension score lies in [0,100] for every batch and trend
\* list, the empty ones included.
C7_SocialTensionRange ==
    (llamada # None /\ llamada[1].hecho /\ llamada[1].op = "tension") =>
        /\ RLeq(RInt(0), llamada[1].resultado)
        /\ RLeq(llamada[1].resultado, RInt(100))

\* a score that the upper clamp cut, and the score of the empty batch
C7_Witness ==
    /\ llamada # None /\ llamada[1].hecho /\ llamada[1].op = "tension"
    /\ articulos # << >>
    /\ \E i \in 1..Len(articulos) : articulos[i].sentimiento = NEGATIVO
    /\ llamada[1].resultado = RInt(100)

\* the prior count Redis holds for h: 0 for a missing or expired key
PreviasEnRedis(h) ==
    IF RedisKey24h(h) \notin DOMAIN redis THEN 0
    ELSE IF redis[RedisKey24h(h)].exp # NoExpiry /\ redis[RedisKey24h(h)].exp <= now
    THEN 0
    ELSE redis[RedisKey24h(h)].val

\* C8: growth = (current - prior) / prior * 100 when prior > 0; when prior = 0
\* growth = 100 if current > 5 and 0 otherwise.
C8_GrowthRule ==
    (llamada # None /\ llamada[1].hecho /\ llamada[1].op = "trend") =>
        LET m == llamada[1].menciones
            p == PreviasEnRedis(llamada[1].hashtag)
            g == llamada[1].crecimiento
        IN  /\ p > 0 => g.n * p = (m - p) * 100 * g.d
            /\ (p = 0 /\ m > 5) => g = RInt(100)
            /\ (p = 0 /\ m <= 5) => g = RInt(0)
            /\ (p = 0 /\ m = 6) => g = RInt(100)
            /\ (p = 0 /\ m \in {3, 5}) => g = RInt(0)
            /\ (p = 5 /\ m = 10) => g = RInt(100)

\* prior 5 and current 10 scored
C8_Witness ==
    /\ llamada # None /\ llamada[1].hecho /\ llamada[1].op = "trend"
    /\ PreviasEnRedis(llamada[1].hashtag) = 5
    /\ llamada[1].menciones = 10
    /\ llamada[1].crecimiento = RInt(100)

Admitido(probabilidad_viral, crecimiento) ==
    \/ RLess(Rat(3, 10), probabilidad_viral)
    \/ RLess(RInt(50), crecimiento)

\* C9: a candidate is in the list the trend detection returns if and only if
\* its viral probability is > 0.3 or its growth is > 50; _analyze_trend
\* returns a topic under the same condition.
C9_AdmissionFilter ==
    /\ \A i \in 1..Len(candidatos) :
          (\E j \in 1..Len(trending_topics) : trending_topics[j] = candidatos[i].topic)
          <=> Admitido(candidatos[i].topic.probabilidad_viral,
                       candidatos[i].topic.crecimiento_24h)
    /\ pc \in {"collective", "done", "error"} =>
          \A j \in 1..Len(trending_topics) :
              \E i \in 1..Len(candidatos) : trending_topics[j] = candidatos[i].topic
    /\ (llamada # None /\ llamada[1].hecho /\ llamada[1].op = "trend") =>
          /\ trending_topics # << >>
                <=> Admitido(llamada[1].resultado, llamada[1].crecimiento)
          /\ \A j \in 1..Len(trending_topics) :
                /\ trending_topics[j].hashtag = llamada[1].hashtag
                /\ trending_topics[j].probabilidad_viral = llamada[1].resultado

\* a topic admitted for its viral probability alone
C9_Witness ==
    /\ llamada # None /\ llamada[1].hecho /\ llamada[1].op = "trend"
    /\ trending_topics # << >>
    /\ RLess(Rat(3, 10), llamada[1].resultado)
    /\ RLeq(llamada[1].crecimiento, RInt(50))

CodePoint(c) ==
    CASE c = "#" -> 35 [] c = "_" -> 95 [] c = "a" -> 97 [] c = "d" -> 100
      [] c = "e" -> 101 [] c = "g" -> 103 [] c = "l" -> 108 [] c = "n" -> 110
      [] c = "o" -> 111 [] c = "p" -> 112 [] c = "r" -> 114 [] c = "s" -> 115
      [] c = "u" -> 117 [] OTHER -> 0

\* a < b for Python strings
RECURSIVE LexLess(_, _)
LexLess(a, b) ==
    IF b = << >> THEN FALSE
    ELSE IF a = << >> THEN TRUE
    ELSE IF Head(a) = Head(b) THEN LexLess(Tail(a), Tail(b))
    ELSE CodePoint(Head(a)) < CodePoint(Head(b))

\* C10: the returned list is sorted by viral probability descending, then by
\* mention count descending, then by token ascending.
C10_SortedWithTieBreaks ==
    \A i \in 1..(Len(trending_topics) - 1) :
        LET a == trending_topics[i]
            b == trending_topics[i + 1]
        IN  \/ RLess(b.probabilidad_viral, a.probabilidad_viral)
            \/ /\ b.probabilidad_viral = a.probabilidad_viral
               /\ \/ b.menciones < a.menciones
                  \/ /\ b.menciones = a.menciones
                     /\ LexLess(a.hashtag, b.hashtag)

\* the two choices differ only in the order list(set(..)) gave the tags
MismosConjuntos(tl1, tl2) ==
    \A i \in 1..Len(tl1) : Range(tl1[i]) = Range(tl2[i])

\* C11: on the same batch and the same Redis content the trend detection
\* returns the same ordered list of topics, whatever order the sets of tags
\* are iterated in.
C11_TrendTrackerDeterministic ==
    (pc = "trends" /\ redis_up) =>
        \A tl1 \in TagListChoices(articulos) :
            \E r1 \in {ExtractHashtagsAndTrends(articulos, tl1, redis, now)} :
                \A tl2 \in TagListChoices(articulos) :
                    MismosConjuntos(tl1, tl2) =>
                        ExtractHashtagsAndTrends(articulos, tl2, redis, now).trending_topics
                            = r1.trending_topics

\* C12: on an empty batch the collective analysis returns, without raising,
\* a snapshot with an empty emotion distribution, tension 0 and no conflict
\* indicators.
C12_EmptyBatchSnapshot ==
    (pc \in {"done", "error"} /\ articulos = << >>) =>
        /\ excepcion = None
        /\ analisis # None
        /\ \A i \in 1..Len(analisis) :
              /\ DOMAIN analisis[i].distribucion_emociones = {}
              /\ analisis[i].nivel_tension_social = RInt(0)
              /\ analisis[i].indicadores_conflicto = << >>

\* the most frequent polarity, the first of (positive, negative, neutral)
\* among equally frequent ones
DominanteSegunEnum(arts) ==
    LET orden == << POSITIVO, NEGATIVO, NEUTRAL >>
        n(p) == Cardinality({i \in 1..Len(arts) : arts[i].sentimiento = p})
    IN  orden[CHOOSE k \in 1..3 :
                /\ \A j \in 1..3 : n(orden[j]) <= n(orden[k])
                /\ \A j \in 1..(k - 1) : n(orden[j]) < n(orden[k])]

\* C13: polaridad_dominante is the most frequent polarity of the batch, ties
\* going to the first in enum order (positive, negative, neutral) whatever the
\* order of the articles.
C13_DominantPolarity ==
    \A i \in 1..Len(analisis) :
        analisis[i].polaridad_dominante = DominanteSegunEnum(articulos)

\* C14: a trend detection that finds Redis unreachable still returns the
\* topics computed from the current counts, every prior count taken as 0,
\* instead of raising.
C14_StoreOutageTolerated ==
    [][ (pc = "trends" /\ ~redis_up) =>
          /\ pc' = "collective"
          /\ excepcion' = None
          /\ \E tl \in TagListChoices(articulos) :
                trending_topics'
                    = ExtractHashtagsAndTrends(articulos, tl, RedisVacio, now).trending_topics
      ]_vars

\* C15: a pipeline failure on one article does not end the run: the loop goes
\* on to the next article, the other articles keep their signals, and the
\* failing article goes on with score 0 and no emotions.
C15_ExtractionFailureIsolated ==
    [][ pc = "sentiment" =>
          /\ pc' \in {"sentiment", "trends"}
          /\ excepcion' = None
          /\ idx' = idx + 1
          /\ \A j \in 1..Len(articulos) : j # idx => articulos'[j] = articulos[j]
          /\ \/ \E c \in Clasificaciones :
                   articulos'[idx] = AnalyzeSentimentOf(articulos[idx], c)
             \/ /\ articulos'[idx].score_sentimiento = RInt(0)
                /\ articulos'[idx].emociones = << >>
                /\ articulos'[idx].sentimiento \in {Nil, NEUTRAL}
      ]_vars

\* C16: when two runs overlap, no write of one run to the counter of a token
\* falls between the other run's read of the prior count of that token and
\* its write of the current count.
C16_CounterUpdateAtomic ==
    [][ \A p \in Corridas, q \in Corridas :
          (/\ pc = "overlap"
           /\ p # q
           /\ llamada[p].fase = "setex"
           /\ llamada[q].fase = "setex"
           /\ llamada[p].hashtag = llamada[q].hashtag)
          => llamada'[q].fase # "fin" ]_vars

\* C17: within one run, trend scoring starts only when signal extraction has
\* finished for every document of the batch, and the collective snapshot is
\* computed only after trend scoring has finished.
C17_PhasesInOrder ==
    [][ /\ pc = "trends" =>
              \A i \in 1..Len(articulos) : articulos[i].sentimiento # Nil
        /\ pc' = "collective" => pc = "trends"
        /\ (analisis' # analisis /\ analisis' # None) => pc = "collective" ]_vars

C17_Witness ==
    /\ pc = "done"
    /\ Len(articulos) = MaxDocs
    /\ \A i \in 1..Len(articulos) : articulos[i].sentimiento # Nil
    /\ trending_topics # << >>
    /\ analisis # None

Minimo(a, b) == IF a < b THEN a ELSE b

\* C18: every row returned by a query with a non-empty topic filter has a
\* stored topic set that intersects the filter; a query without a filter is
\* restricted by nothing but top_k.
C18_FilterCorrectness ==
    resultados # None =>
        LET res == resultados[1]
        IN  IF res.filter_temas # << >>
            THEN /\ \A i \in 1..Len(res.pinecone) :
                       Range(res.pinecone[i].temas) \cap Range(res.filter_temas) # {}
                 /\ \A i \in 1..Len(res.pgvector) :
                       Range(res.pgvector[i].temas) \cap Range(res.filter_temas) # {}
            ELSE /\ Len(res.pinecone) =
                       Minimo(res.top_k, Cardinality(DOMAIN vector_index))
                 /\ Len(res.pgvector) =
                       Minimo(res.top_k, Len(audio_transcriptions))

C18_Witness ==
    /\ resultados # None
    /\ resultados[1].filter_temas = <<"seguridad">>
    /\ resultados[1].top_k > Len(audio_transcriptions)
    /\ resultados[1].pinecone # << >>
    /\ resultados[1].pgvector # << >>
    /\ Len(resultados[1].pgvector) < Len(audio_transcriptions)
    /\ Len(resultados[1].pinecone) < Cardinality(DOMAIN vector_index)

\* the result list res answers a round trip with the query vector q
RoundTrip(res, q, top_k) ==
    /\ Len(res) <= top_k
    /\ \A i \in 1..(Len(res) - 1) : RLeq(res[i + 1].score, res[i].score)
    /\ res # << >>
    /\ res[1].score = Cosine(q, q)

\* C19: once a document is stored, a query without filter whose vector is
\* the document's own embedding returns at most top_k rows, by descending
\* similarity, and the top similarity is the one of the document with itself.
C19_RoundTrip ==
    (resultados # None /\ resultados[1].filter_temas = << >>) =>
        LET res == resultados[1]
        IN  /\ (\E r \in 1..Len(audio_transcriptions) :
                    audio_transcriptions[r].embedding = res.query_embedding)
                => RoundTrip(res.pgvector, res.query_embedding, res.top_k)
            /\ (\E id \in DOMAIN vector_index :
                    vector_index[id].values = res.query_embedding)
                => RoundTrip(res.pinecone, res.query_embedding, res.top_k)

C19_Witness ==
    /\ resultados # None
    /\ resultados[1].filter_temas = << >>
    /\ resultados[1].top_k = 1
    /\ Len(almacenados) = 2
    /\ almacenados[1].embeddings # resultados[1].query_embedding
    /\ almacenados[2].embeddings = resultados[1].query_embedding
    /\ almacenados[1].source.id # almacenados[2].source.id
    /\ resultados[1].pgvector[1].transcription = almacenados[2].transcription
    /\ resultados[1].pinecone[1].score = RInt(1)

\* C20: an upsert whose embedding has not the dimension of the store is
\* rejected by the adapter with DimensionMismatch, and the store keeps its
\* content.
C20_DimensionChecked ==
    [][ (/\ pc = "vector"
         /\ llamada' # None
         /\ llamada' # llamada
         /\ Len(llamada'[1].embeddings) # Dimension)
        => /\ excepcion' = Some("DimensionMismatch")
           /\ UNCHANGED << vector_index, audio_transcriptions >> ]_vars

\* C21: once an article is analysed, the sign of its score agrees with its
\* polarity: positive gives a score >= 0, negative a score <= 0, neutral
\* the score 0.
C21_ScoreSignMatchesPolarity ==
    \A i \in 1..Len(articulos) :
        /\ articulos[i].sentimiento = POSITIVO
              => RLeq(RInt(0), articulos[i].score_sentimiento)
        /\ articulos[i].sentimiento = NEGATIVO
              => RLeq(articulos[i].score_sentimiento, RInt(0))
        /\ articulos[i].sentimiento = NEUTRAL
              => articulos[i].score_sentimiento = RInt(0)

C21_Witness ==
    /\ pc = "done"
    /\ \E i, j \in 1..Len(articulos) :
          /\ articulos[i].sentimiento = NEGATIVO
          /\ RLess(articulos[i].score_sentimiento, RInt(0))
          /\ articulos[j].sentimiento = NEUTRAL

\* a step of extract_hashtags_and_trends, inside a run or called directly
PasoDeExtraccion ==
    /\ \/ pc = "trends"
       \/ pc = "unit" /\ llamada[1].op = "extract"
    /\ pc' \in {"collective", "returned"}

\* C22: topic extraction keeps the tags a document already has: the tags
\* after the extraction include every tag the document had before.
C22_PreviousTagsPreserved ==
    [][ PasoDeExtraccion =>
          \A i \in 1..Len(articulos) :
              Range(articulos[i].tags) \subseteq Range(articulos'[i].tags) ]_vars

\* the states that hold the topics a trend computation over articulos emitted
TemasCalculados ==
    \/ pc \in {"collective", "done"}
    \/ /\ pc = "returned"
       /\ llamada[1].op \in {"trend", "extract"}

\* the articles of the batch whose title and body contain the token,
\* whatever the case of the text
ConToken(hashtag) ==
    SelectSeq(articulos, LAMBDA a :
        \E i \in 1..Len(Texto(a)) :
            /\ i + Len(hashtag) - 1 <= Len(Texto(a))
            /\ \A j \in 1..Len(hashtag) :
                  LowerChar(Texto(a)[i + j - 1]) = hashtag[j])

\* C23: the related documents of an emitted topic are exactly the documents
\* of the batch whose title and body contain the token, and its average
\* sentiment is the mean of their scores, 0 when there are none.
C23_RelatedDocuments ==
    TemasCalculados =>
        \A k \in 1..Len(trending_topics) :
            LET t == trending_topics[k]
                con == ConToken(t.hashtag)
            IN  /\ t.articulos_relacionados = [i \in 1..Len(con) |-> con[i].id]
                /\ t.sentimiento_promedio =
                       IF con = << >> THEN RInt(0)
                       ELSE RDivInt(RSum([i \in 1..Len(con) |-> con[i].score_sentimiento]),
                                    Len(con))

C23_Witness ==
    /\ pc = "done"
    /\ Len(articulos) = 2
    /\ \E k \in 1..Len(trending_topics) :
          /\ Len(trending_topics[k].articulos_relacionados) = 1
          /\ trending_topics[k].sentimiento_promedio # RInt(0)

\* C24: every token the tag extractor produced is lowercase, has no leading
\* '#', has no blank inside and is at least 2 characters long, and the tag
\* list of a document holds no token twice.
C24_TokensNormalized ==
    (pc \in {"collective", "done"}) =>
        \A i \in 1..Len(articulos) :
            /\ \A k \in 1..Len(articulos[i].tags) :
                  LET tag == articulos[i].tags[k]
                  IN  /\ tag = Lower(tag)
                      /\ Head(tag) # "#"
                      /\ \A j \in 1..Len(tag) : tag[j] # " "
                      /\ Len(tag) >= 2
            /\ \A k, l \in 1..Len(articulos[i].tags) :
                  articulos[i].tags[k] = articulos[i].tags[l] => k = l

\* the positions among the first 10 trends whose token holds a conflict keyword
TemasEnConflicto ==
    {i \in 1..Len(trending_topics) : i <= 10 /\ HasConflictKeyword(trending_topics[i].hashtag)}

TitularesEnConflicto ==
    {i \in 1..Len(articulos) : HasConflictKeyword(articulos[i].titulo)}

\* C25: the indicators are one 'Trending' line for each of the first 10
\* trends whose token holds a conflict keyword, in their order, followed by
\* one summary line exactly when the titles holding a conflict keyword are
\* strictly more than 20% of the batch; either part may be absent.
C25_ConflictIndicators ==
    (llamada # None /\ llamada[1].hecho /\ llamada[1].op = "conflict") =>
        LET ind == llamada[1].resultado
            lineas == SelectSeq(ind, LAMBDA l : l.tipo = "trending")
            resumen == SelectSeq(ind, LAMBDA l : l.tipo = "titulares")
        IN  /\ Len(ind) = Len(lineas) + Len(resumen)
            /\ Len(lineas) = Cardinality(TemasEnConflicto)
            /\ \A i \in 1..Len(lineas) : ind[i] = lineas[i]
            /\ \A i \in 1..Len(lineas) :
                  \E k \in TemasEnConflicto :
                     /\ lineas[i].hashtag = trending_topics[k].hashtag
                     /\ Cardinality({j \in TemasEnConflicto : j <= k}) = i
            /\ Len(resumen) =
                  IF 5 * Cardinality(TitularesEnConflicto) > Len(articulos)
                  THEN 1 ELSE 0
            /\ \A i \in 1..Len(resumen) :
                  resumen[i].menciones = Cardinality(TitularesEnConflicto)

\* exactly 20% of the titles hold a keyword: no summary line; the eleventh
\* trend holds one: no line for it
C25_Witness ==
    /\ llamada # None /\ llamada[1].hecho /\ llamada[1].op = "conflict"
    /\ Len(articulos) = 5
    /\ Cardinality(TitularesEnConflicto) = 1
    /\ Len(trending_topics) = 11
    /\ HasConflictKeyword(trending_topics[11].hashtag)
    /\ Len(llamada[1].resultado) = 1
    /\ llamada[1].resultado[1].tipo = "trending"

\* the documents of the batch whose extracted tags hold the token
Cuenta(hashtag) ==
    Cardinality({i \in 1..Len(articulos) : hashtag \in Range(articulos[i].tags)})

TodosLosTags == UNION {Range(articulos[i].tags) : i \in 1..Len(articulos)}

Candidatos == {candidatos[i].topic.hashtag : i \in 1..Len(candidatos)}

\* C26: the mention count of a scored token is the number of documents of
\* the batch whose extracted tags hold it, and the scored tokens are the
\* tokens of the batch, at most 20 of them, none with a smaller count than
\* a token left out.
C26_MentionCountAndTop20 ==
    (pc \in {"collective", "done"}
        \/ (pc = "returned" /\ llamada[1].op = "extract")) =>
        /\ \A i \in 1..Len(candidatos) :
              candidatos[i].topic.menciones = Cuenta(candidatos[i].topic.hashtag)
        /\ \A i, j \in 1..Len(candidatos) :
              candidatos[i].topic.hashtag = candidatos[j].topic.hashtag => i = j
        /\ Candidatos \subseteq TodosLosTags
        /\ Len(candidatos) = Minimo(20, Cardinality(TodosLosTags))
        /\ \A h \in TodosLosTags \ Candidatos :
              \A i \in 1..Len(candidatos) : Cuenta(h) <= candidatos[i].topic.menciones

\* 21 tokens in the batch, 20 scored, one of them found in two documents
C26_Witness ==
    /\ pc = "returned" /\ llamada[1].op = "extract"
    /\ Cardinality(TodosLosTags) = 21
    /\ Len(candidatos) = 20
    /\ \E i \in 1..Len(candidatos) : candidatos[i].topic.menciones = 2

\* C27: a trend analysis writes the counter of every scored token, emitted
\* or not, with the current count and a lifetime of 86400 seconds, and
\* leaves every other key as it was; an empty batch writes nothing.
C27_CounterWrites ==
    [][ PasoDeExtraccion =>
          /\ \A i \in 1..Len(candidatos') :
                LET key == RedisKey(candidatos'[i].topic.hashtag)
                IN  /\ key \in DOMAIN redis'
                    /\ redis'[key].val = candidatos'[i].topic.menciones
                    /\ redis'[key].exp = now + 86400
          /\ \A key \in DOMAIN redis' :
                (\A i \in 1..Len(candidatos') :
                     key # RedisKey(candidatos'[i].topic.hashtag))
                => (key \in DOMAIN redis /\ redis'[key] = redis[key])
          /\ articulos = << >> => redis' = redis ]_vars

\* a scored token that was not emitted has its counter written
C27_Witness ==
    /\ pc = "collective"
    /\ \E i \in 1..Len(candidatos) :
          /\ ~candidatos[i].emitido
          /\ RedisKey(candidatos[i].topic.hashtag) \in DOMAIN redis
          /\ redis[RedisKey(candidatos[i].topic.hashtag)].val
                = candidatos[i].topic.menciones

\* C28: when only this program writes the counters, every read of a prior
\* count gives 0: the growth of every scored token is 0 or 100, no emitted
\* topic has a growth above 100, and the tension score is the one of a
\* trend list without explosive topics.
C28_NoBaselineEver ==
    /\ \A i \in 1..Len(candidatos) :
          /\ candidatos[i].previas = 0
          /\ candidatos[i].topic.crecimiento_24h \in {RInt(0), RInt(100)}
    /\ \A k \in 1..Len(trending_topics) :
          RLeq(trending_topics[k].crecimiento_24h, RInt(100))
    /\ (pc = "done" /\ analisis # None) =>
          analisis[1].nivel_tension_social = CalculateSocialTension(articulos, << >>)

\* a later run scores a token with growth 100 and emits it
C28_Witness ==
    /\ pc = "done"
    /\ runs < MaxRuns - 1
    /\ \E k \in 1..Len(trending_topics) :
          /\ trending_topics[k].crecimiento_24h = RInt(100)
          /\ RedisKey(trending_topics[k].hashtag) \in DOMAIN redis

\* C29: every document whose extracted tags hold the token of an emitted
\* topic is among the related documents of the topic, so the topic has at
\* least as many related documents as mentions.
C29_CountedDocumentsAreRelated ==
    (pc \in {"collective", "done"}) =>
        \A k \in 1..Len(trending_topics) :
            /\ \A i \in 1..Len(articulos) :
                  trending_topics[k].hashtag \in Range(articulos[i].tags)
                  => articulos[i].id \in Range(trending_topics[k].articulos_relacionados)
            /\ Len(trending_topics[k].articulos_relacionados)
                  >= trending_topics[k].menciones

\* C30: a source that fails, configured or not, and a link that fails do not
\* end the run: the next source is attempted, every link of a source is
\* attempted, the articles collected so far are kept, and after the last
\* source the run goes on to the analysis.
C30_ScrapeFailuresIsolated ==
    [][ pc = "scrape" =>
          /\ excepcion' = None
          /\ Len(llamada') = idx
          /\ llamada'[idx].fuente = FuenteNoticia[idx]
          /\ llamada'[idx].intentados = Len(llamada'[idx].links)
          /\ Len(articulos') = Len(articulos)
                + Cardinality({i \in 1..Len(llamada'[idx].links) :
                                 llamada'[idx].links[i] = "articulo"})
          /\ SubSeq(articulos', 1, Len(articulos)) = articulos
          /\ pc' = IF idx < 7 THEN "scrape"
                   ELSE IF articulos' = << >> THEN "trends" ELSE "sentiment" ]_vars

\* a run that met a failing front page, a failing link and the sources
\* without configuration, and still finished with the articles of the others
C30_Witness ==
    /\ pc = "done"
    /\ Len(llamada) = 7
    /\ llamada[1].excepcion = Some("ClientError")
    /\ llamada[2].links = <<"error", "articulo">>
    /\ llamada[5].excepcion = Some("KeyError")
    /\ Len(articulos) = 2
    /\ analisis # None

====
